---- MODULE Spec2Model ----
(***************************************************************************)
(* Model of voice_intent.py: the text normalizer, the rule-based intent    *)
(* resolver and the event loop of main() that turns recognizer results     *)
(* into intent notifications.                                              *)
(*                                                                         *)
(* Text is a sequence of one-character strings.  Time is counted in ticks  *)
(* of 0.2 s, so the 0.6 s debounce is 3 ticks and the 0.8 s poll is 4.     *)
(***************************************************************************)
EXTENDS Integers, Sequences, FiniteSets, TLC

----------------------------------------------------------------------------
(* Characters *)

UpperChars == <<"A","B","C","D","E","F","G","H","I","J","K","L","M",
                "N","O","P","Q","R","S","T","U","V","W","X","Y","Z">>

LowerChars == <<"a","b","c","d","e","f","g","h","i","j","k","l","m",
                "n","o","p","q","r","s","t","u","v","w","x","y","z">>

Digits == {"0","1","2","3","4","5","6","7","8","9"}

\* \s of the regular expressions, and what str.strip() removes
Whitespace == {" ", "\t", "\n", "\r"}

Range(s) == {s[i] : i \in DOMAIN s}

\* str.lower(), character by character
LowerOf == [i \in DOMAIN UpperChars |-> LowerChars[i]]

UpperIndex == [c \in Range(UpperChars) |-> CHOOSE i \in DOMAIN UpperChars : UpperChars[i] = c]

LowerChar(c) == IF c \in DOMAIN UpperIndex THEN LowerOf[UpperIndex[c]] ELSE c

\* the class [a-z0-9\s'] of normalize
KeepClass == Range(LowerChars) \cup Digits \cup Whitespace \cup {"'"}

InKeepClass(c) == c \in KeepClass

\* \w of the regular expressions (word characters)
WordChars == Range(LowerChars) \cup Range(UpperChars) \cup Digits \cup {"_"}

IsWordChar(c) == c \in WordChars

----------------------------------------------------------------------------
(* normalize *)

\* text.lower()
Lower(text) == [i \in DOMAIN text |-> LowerChar(text[i])]

\* the substitution left out
ReplaceOutside_None(text) == text

\* re.sub(r"[^a-z0-9\s']", " ", text)
ReplaceOutside(text) ==
    [i \in DOMAIN text |-> IF InKeepClass(text[i]) THEN text[i] ELSE " "]

\* re.sub(r"\s+", " ", text): every maximal run of whitespace becomes one space
RECURSIVE CollapseWs(_)
CollapseWs(text) ==
    IF text = <<>> THEN <<>>
    ELSE IF Head(text) \in Whitespace
         THEN IF Len(text) > 1 /\ text[2] \in Whitespace
              THEN CollapseWs(Tail(text))
              ELSE <<" ">> \o CollapseWs(Tail(text))
         ELSE <<Head(text)>> \o CollapseWs(Tail(text))

\* str.strip(): drop leading and trailing whitespace
RECURSIVE StripLeft(_)
StripLeft(text) ==
    IF text # <<>> /\ Head(text) \in Whitespace THEN StripLeft(Tail(text)) ELSE text

RECURSIVE StripRight(_)
StripRight(text) ==
    IF text # <<>> /\ text[Len(text)] \in Whitespace
    THEN StripRight(SubSeq(text, 1, Len(text) - 1))
    ELSE text

Strip(text) == StripRight(StripLeft(text))

\* .strip() taken first, before the two substitutions
normalize_StripFirst(text) == CollapseWs(ReplaceOutside(Lower(Strip(text))))

normalize(text) == Strip(CollapseWs(ReplaceOutside(Lower(text))))

----------------------------------------------------------------------------
(* The patterns.  A regular expression is modelled by the set of its     *)
(* alternatives, each a sequence of atoms: a literal character or \s*.    *)
(* Every pattern of the source starts and ends with \b.                   *)

\* the words the patterns are made of, spelled as character sequences
W == [
    start |-> <<"s","t","a","r","t">>,
    begin |-> <<"b","e","g","i","n">>,
    commence |-> <<"c","o","m","m","e","n","c","e">>,
    initiate |-> <<"i","n","i","t","i","a","t","e">>,
    resume |-> <<"r","e","s","u","m","e">>,
    continue |-> <<"c","o","n","t","i","n","u","e">>,
    play |-> <<"p","l","a","y">>,
    go |-> <<"g","o">>,
    ahead |-> <<"a","h","e","a","d">>,
    kick |-> <<"k","i","c","k">>,
    off |-> <<"o","f","f">>,
    the |-> <<"t","h","e">>,
    session |-> <<"s","e","s","s","i","o","n">>,
    process |-> <<"p","r","o","c","e","s","s">>,
    please |-> <<"p","l","e","a","s","e">>,
    stop |-> <<"s","t","o","p">>,
    end |-> <<"e","n","d">>,
    halt |-> <<"h","a","l","t">>,
    abort |-> <<"a","b","o","r","t">>,
    terminate |-> <<"t","e","r","m","i","n","a","t","e">>,
    quit |-> <<"q","u","i","t">>,
    cancel |-> <<"c","a","n","c","e","l">>,
    shut |-> <<"s","h","u","t">>,
    down |-> <<"d","o","w","n">>,
    it |-> <<"i","t">>,
    pause |-> <<"p","a","u","s","e">>,
    hold |-> <<"h","o","l","d">>,
    on |-> <<"o","n">>,
    hang |-> <<"h","a","n","g">>,
    wait |-> <<"w","a","i","t">>,
    freeze |-> <<"f","r","e","e","z","e">>,
    suspend |-> <<"s","u","s","p","e","n","d">>,
    exit |-> <<"e","x","i","t">>,
    asr |-> <<"a","s","r">>,
    listening |-> <<"l","i","s","t","e","n","i","n","g">>,
    program |-> <<"p","r","o","g","r","a","m">>,
    close |-> <<"c","l","o","s","e">>,
    app |-> <<"a","p","p">>,
    goodbye |-> <<"g","o","o","d","b","y","e">>
]

SP == <<" ">>

\* the atom that stands for \s* inside a pattern
WsStar == "\\s*"

\* a phrase: the given pieces joined by single literal spaces
RECURSIVE Phrase(_)
Phrase(ws) ==
    IF Len(ws) = 1 THEN ws[1] ELSE ws[1] \o SP \o Phrase(Tail(ws))

START_PATTERNS == <<
    {W.start},
    {W.begin},
    {W.commence},
    {W.initiate},
    {W.resume},
    {W.continue},
    {W.play},
    {Phrase(<<W.go, W.ahead>>)},
    {Phrase(<<W.kick, W.off>>)},
    {Phrase(<<W.start, W.the, W.session>>), Phrase(<<W.start, W.the, W.process>>)},
    {Phrase(<<W.please, W.start>>)}
>>

STOP_PATTERNS == <<
    {W.stop},
    {W.end},
    {W.halt},
    {W.abort},
    {W.terminate},
    {W.quit},
    {W.cancel},
    {W.shut \o <<WsStar>> \o W.down, W.shut \o <<WsStar>> \o W.off},
    {Phrase(<<W.end, W.the, W.session>>), Phrase(<<W.end, W.the, W.process>>), Phrase(<<W.stop, W.the, W.session>>), Phrase(<<W.stop, W.the, W.process>>)},
    {Phrase(<<W.please, W.stop>>)},
    {Phrase(<<W.stop, W.it>>)}
>>

PAUSE_PATTERNS == <<
    {W.pause},
    {W.hold},
    {Phrase(<<W.hold, W.on>>)},
    {Phrase(<<W.hang, W.on>>)},
    {W.wait},
    {W.freeze},
    {W.suspend},
    {Phrase(<<W.pause, W.the, W.session>>), Phrase(<<W.pause, W.the, W.process>>)},
    {Phrase(<<W.please, W.pause>>)}
>>

EXIT_PATTERNS == <<
    {W.exit},
    {Phrase(<<W.quit, W.asr>>), Phrase(<<W.quit, W.listening>>), Phrase(<<W.quit, W.program>>)},
    {W.close},
    {Phrase(<<W.stop, W.listening>>)},
    {Phrase(<<W.exit, x>>) : x \in {W.asr, W.program, W.app}}
        \cup {Phrase(<<W.exit, W.the, x>>) : x \in {W.asr, W.program, W.app}},
    {Phrase(<<W.end, W.listening>>)},
    {Phrase(<<W.terminate, W.asr>>), Phrase(<<W.terminate, W.listening>>)},
    {W.goodbye}
>>

----------------------------------------------------------------------------
(* re.search, match_any, resolve_intent *)

\* \b before position i of t (i in 1..Len(t)+1): exactly one neighbour is a word character
WordAt(t, i) == i >= 1 /\ i <= Len(t) /\ IsWordChar(t[i])

Boundary(t, i) == WordAt(t, i - 1) # WordAt(t, i)

\* the atoms p[k..] match t from position i on, and a \b follows the match
RECURSIVE MatchFrom(_, _, _, _)
MatchFrom(t, i, p, k) ==
    IF k > Len(p) THEN Boundary(t, i)
    ELSE IF p[k] = WsStar
         THEN \E j \in i..(Len(t) + 1) :
                  /\ \A m \in i..(j - 1) : t[m] \in Whitespace
                  /\ MatchFrom(t, j, p, k + 1)
         ELSE /\ i <= Len(t)
              /\ t[i] = p[k]
              /\ MatchFrom(t, i + 1, p, k + 1)

\* re.search(p, text): some alternative of p matches at some position, after a \b
Search(p, text) ==
    \E alt \in p : \E i \in 1..(Len(text) + 1) :
        Boundary(text, i) /\ MatchFrom(text, i, alt, 1)

match_any(text, patterns) == \E n \in DOMAIN patterns : Search(patterns[n], text)

\* the groups tried in the opposite order
resolve_intent_StartFirst(text) ==
    LET t == normalize(text)
    IN  IF match_any(t, START_PATTERNS) THEN "START"
        ELSE IF match_any(t, PAUSE_PATTERNS) THEN "PAUSE"
        ELSE IF match_any(t, STOP_PATTERNS) THEN "STOP"
        ELSE IF match_any(t, EXIT_PATTERNS) THEN "EXIT"
        ELSE "OTHER"

resolve_intent(text) ==
    LET t == normalize(text)
    IN  IF match_any(t, EXIT_PATTERNS) THEN "EXIT"
        ELSE IF match_any(t, STOP_PATTERNS) THEN "STOP"
        ELSE IF match_any(t, PAUSE_PATTERNS) THEN "PAUSE"
        ELSE IF match_any(t, START_PATTERNS) THEN "START"
        ELSE "OTHER"

----------------------------------------------------------------------------
(* Bounds and inputs *)

\* the clock stops at MaxTime: MaxTime stands for that time and every later one
MaxTime == 6

\* frames the hand-off queue holds at most (queue.Queue() itself is unbounded)
MaxQueue == 2

\* --silence-timeout, in ticks (0 disables it)
SilenceTimeouts == {0, 4}

\* what the recognizer may return for a frame, before .strip()
RecognizerTexts == {<<" ">>, <<"!">>, W.stop, W.wait, W.exit, <<"u","h">>}

\* debounce_sec = 0.6
debounce_sec == 3

\* time.time() when the session starts: later than the 0.0 last_emit_ts starts from
StartTime == 1

\* q.get(timeout=0.8)
PollTimeout == 4

Min(a, b) == IF a < b THEN a ELSE b

----------------------------------------------------------------------------
(* State *)

VARIABLES
    silence_timeout,   \* args.silence_timeout
    q,                 \* the hand-off queue of raw frames
    audio,             \* the capture thread: "open", "failed", "closed"
    pc,                \* main: "loop" (in the while loop, at q.get), "done", "exited"
    waited,            \* ticks spent in the current q.get
    now,               \* time.time()
    last_intent,
    last_activity_ts,
    last_emit_ts,
    reason,            \* why the loop ended: "", "voice exit", "silence timeout", "interrupt", "error"
    exit_code,         \* process exit code once main has ended, -1 before
    event,             \* the recognizer result handled last, and what was printed for it
    prev_event,        \* the one handled before it
    input,             \* a text given to normalize / resolve_intent directly
    normalized,        \* normalize(input) once computed
    resolved,          \* resolve_intent(input) once computed
    resolved_normalized, \* resolve_intent(normalized) once computed
    text_pc            \* "idle", "ready", "normalized", "resolved", "resolved again"

loop_vars == <<silence_timeout, q, audio, pc, waited, now, last_intent,
               last_activity_ts, last_emit_ts, reason, exit_code, event, prev_event>>

text_vars == <<input, normalized, resolved, resolved_normalized, text_pc>>

vars == <<loop_vars, text_vars>>

Frame == "frame"

NoEvent == [kind |-> "NONE", text |-> <<>>, emitted |-> "NONE", lines |-> <<>>]

\* resolve_intent, tabulated once over the texts the loop can see
IntentTable == [t \in {Strip(raw) : raw \in RecognizerTexts} |-> resolve_intent(t)]

IntentOf(text) == IntentTable[text]

\* .strip(), tabulated once over what the recognizer may return
StripTable == [raw \in RecognizerTexts |-> Strip(raw)]

StripOf(raw) == StripTable[raw]

LoopInit ==
    /\ silence_timeout \in SilenceTimeouts
    /\ q = <<>>
    /\ audio = "open"
    /\ pc = "loop"
    /\ waited = 0
    /\ now = StartTime
    /\ last_intent = "None"
    /\ last_activity_ts = now
    /\ last_emit_ts = 0
    /\ reason = ""
    /\ exit_code = -1
    /\ event = NoEvent
    /\ prev_event = NoEvent

TextIdle ==
    /\ input = <<>>
    /\ normalized = <<>>
    /\ resolved = "NONE"
    /\ resolved_normalized = "NONE"
    /\ text_pc = "idle"

Init == LoopInit /\ TextIdle

----------------------------------------------------------------------------
(* The capture thread *)

\* the callback taking the arrival of a frame for activity
AudioCallback_MarksActivity ==
    /\ audio = "open"
    /\ Len(q) < MaxQueue
    /\ q' = Append(q, Frame)
    /\ last_activity_ts' = now
    /\ UNCHANGED <<silence_timeout, audio, pc, waited, now, last_intent,
                   last_emit_ts, reason, exit_code, event, prev_event>>
    /\ UNCHANGED text_vars

\* callback: q.put(bytes(indata))
AudioCallback ==
    /\ audio = "open"
    /\ Len(q) < MaxQueue
    /\ q' = Append(q, Frame)
    /\ UNCHANGED <<silence_timeout, audio, pc, waited, now, last_intent,
                   last_activity_ts, last_emit_ts, reason, exit_code, event, prev_event>>
    /\ UNCHANGED text_vars

\* sd.RawInputStream raises (device unavailable, stream error): the thread ends
AudioFail ==
    /\ audio = "open"
    /\ pc # "exited"
    /\ audio' = "failed"
    /\ UNCHANGED <<silence_timeout, q, pc, waited, now, last_intent,
                   last_activity_ts, last_emit_ts, reason, exit_code, event, prev_event>>
    /\ UNCHANGED text_vars

----------------------------------------------------------------------------
(* The clock *)

\* Time passes while main waits in q.get: time.time() is read right after the
\* frame is taken (line 138) and at the silence check (line 132), so time
\* spent inside the loop body is time before the next q.get.  The clock stops
\* at MaxTime while the poll timer goes on, so a poll can still expire there.
Tick ==
    /\ pc = "loop"
    /\ now' = Min(now + 1, MaxTime)
    /\ waited' = Min(waited + 1, PollTimeout)
    /\ UNCHANGED <<silence_timeout, q, audio, pc, last_intent,
                   last_activity_ts, last_emit_ts, reason, exit_code, event, prev_event>>
    /\ UNCHANGED text_vars

----------------------------------------------------------------------------
(* The event loop of main() *)

\* the "> 0" test left out
SilenceExpired_NoSwitch(st, t, last_act) == (t - last_act) > st

\* args.silence_timeout > 0 and (time.time() - last_activity_ts) > args.silence_timeout
SilenceExpired(st, t, last_act) == st > 0 /\ (t - last_act) > st

\* the emptiness test left out
IsBlank_Never(text) == FALSE

\* "if not text" / "if not partial", on the stripped text
IsBlank(text) == text = <<>>

\* ">=" for ">"
PartialEmits_AtWindow(intent, t, last_emit, last_int) ==
    (t - last_emit) >= debounce_sec \/ intent # last_int

\* "and" for "or"
PartialEmits_Both(intent, t, last_emit, last_int) ==
    (t - last_emit) > debounce_sec /\ intent # last_int

\* (now - last_emit_ts) > debounce_sec or intent != last_intent
PartialEmits(intent, t, last_emit, last_int) ==
    (t - last_emit) > debounce_sec \/ intent # last_int

\* the FINAL branch held to the debounce test of the PARTIAL branch
FinalEmits_Debounced(intent) ==
    intent # "OTHER" /\ PartialEmits(intent, now, last_emit_ts, last_intent)

\* if intent != "OTHER", in the FINAL branch: nothing else is asked
FinalEmits(intent) == intent # "OTHER"

\* the test left out
FinalOtherEmits_Always(last_int) == TRUE

\* if last_intent != "OTHER"
FinalOtherEmits(last_int) == last_int # "OTHER"

\* the assignment left out
MarkActivity_Never == UNCHANGED last_activity_ts

\* last_activity_ts = now, once the text is known not to be empty
MarkActivity == last_activity_ts' = now

\* q.get raises queue.Empty after the poll interval: the silence check
LoopTimeout ==
    /\ pc = "loop"
    /\ q = <<>>
    /\ waited >= PollTimeout
    /\ IF SilenceExpired(silence_timeout, now, last_activity_ts)
       THEN /\ pc' = "done"
            /\ reason' = "silence timeout"
            /\ UNCHANGED waited
       ELSE /\ pc' = "loop"
            /\ waited' = 0
            /\ UNCHANGED reason
    /\ UNCHANGED <<silence_timeout, q, audio, now, last_intent,
                   last_activity_ts, last_emit_ts, exit_code, event, prev_event>>
    /\ UNCHANGED text_vars

\* the record kept of one handled recognizer result
Handled(kind, text, emitted, lines) ==
    [kind |-> kind, text |-> text, emitted |-> emitted, lines |-> lines]

\* "continue" or the end of the loop body: back to q.get
NextIteration ==
    /\ pc' = "loop"
    /\ waited' = 0
    /\ UNCHANGED reason

\* the "break" left out
VoiceExit_NoBreak == NextIteration

\* "break" after "Exit requested by voice. Stopping ASR."
VoiceExit ==
    /\ pc' = "done"
    /\ reason' = "voice exit"
    /\ UNCHANGED waited

\* q.get returned a frame and rec.AcceptWaveform(data) returned true: the
\* branch of rec.Result().  time.time() is read right after the frame is taken.
HandleFinal ==
    /\ pc = "loop"
    /\ q # <<>>
    /\ q' = Tail(q)
    /\ \E raw \in RecognizerTexts :
         LET text == StripOf(raw)
             intent == IntentOf(text)
         IN  IF IsBlank(text)
             THEN /\ event' = Handled("FINAL", text, "NONE", <<>>)
                  /\ NextIteration
                  /\ UNCHANGED <<last_intent, last_activity_ts, last_emit_ts>>
             ELSE /\ MarkActivity
                  /\ IF FinalEmits(intent)
                     THEN /\ last_intent' = intent
                          /\ last_emit_ts' = now
                          /\ IF intent = "EXIT"
                             THEN /\ event' = Handled("FINAL", text, intent,
                                                      <<"HEARD", "EXIT_NOTICE">>)
                                  /\ VoiceExit
                             ELSE /\ event' = Handled("FINAL", text, intent, <<"HEARD">>)
                                  /\ NextIteration
                     ELSE /\ IF FinalOtherEmits(last_intent)
                             THEN /\ event' = Handled("FINAL", text, "OTHER", <<"HEARD">>)
                                  /\ last_intent' = "OTHER"
                             ELSE /\ event' = Handled("FINAL", text, "NONE", <<>>)
                                  /\ UNCHANGED last_intent
                          /\ UNCHANGED last_emit_ts
                          /\ NextIteration
    /\ prev_event' = event
    /\ UNCHANGED <<silence_timeout, audio, now, exit_code>>
    /\ UNCHANGED text_vars

\* q.get returned a frame and rec.AcceptWaveform(data) returned false: the
\* branch of rec.PartialResult()
HandlePartial ==
    /\ pc = "loop"
    /\ q # <<>>
    /\ q' = Tail(q)
    /\ \E raw \in RecognizerTexts :
         LET partial == StripOf(raw)
             intent == IntentOf(partial)
         IN  IF IsBlank(partial)
             THEN /\ event' = Handled("PARTIAL", partial, "NONE", <<>>)
                  /\ NextIteration
                  /\ UNCHANGED <<last_intent, last_activity_ts, last_emit_ts>>
             ELSE /\ MarkActivity
                  /\ IF intent # "OTHER"
                        /\ PartialEmits(intent, now, last_emit_ts, last_intent)
                     THEN /\ last_intent' = intent
                          /\ last_emit_ts' = now
                          /\ IF intent = "EXIT"
                             THEN /\ event' = Handled("PARTIAL", partial, intent,
                                                      <<"HEARD", "EXIT_NOTICE">>)
                                  /\ VoiceExit
                             ELSE /\ event' = Handled("PARTIAL", partial, intent, <<"HEARD">>)
                                  /\ NextIteration
                     ELSE /\ event' = Handled("PARTIAL", partial, "NONE", <<>>)
                          /\ UNCHANGED <<last_intent, last_emit_ts>>
                          /\ NextIteration
    /\ prev_event' = event
    /\ UNCHANGED <<silence_timeout, audio, now, exit_code>>
    /\ UNCHANGED text_vars

\* the recognizer raises while a frame is handled: "except Exception", sys.exit(1)
RuntimeError ==
    /\ pc = "loop"
    /\ q # <<>>
    /\ q' = Tail(q)
    /\ pc' = "done"
    /\ reason' = "error"
    /\ UNCHANGED <<silence_timeout, audio, waited, now, last_intent,
                   last_activity_ts, last_emit_ts, exit_code, event, prev_event>>
    /\ UNCHANGED text_vars

\* Ctrl+C while the loop runs: "except KeyboardInterrupt"
KeyboardInterrupt ==
    /\ pc = "loop"
    /\ pc' = "done"
    /\ reason' = "interrupt"
    /\ UNCHANGED <<silence_timeout, q, audio, waited, now, last_intent,
                   last_activity_ts, last_emit_ts, exit_code, event, prev_event>>
    /\ UNCHANGED text_vars

\* main() has returned or called sys.exit(1): the process ends and takes the
\* daemon capture thread with it
ProcessExit ==
    /\ pc = "done"
    /\ pc' = "exited"
    /\ exit_code' = IF reason = "error" THEN 1 ELSE 0
    /\ audio' = "closed"
    /\ UNCHANGED <<silence_timeout, q, waited, now, last_intent,
                   last_activity_ts, last_emit_ts, reason, event, prev_event>>
    /\ UNCHANGED text_vars

Next ==
    \/ AudioCallback
    \/ AudioFail
    \/ Tick
    \/ LoopTimeout
    \/ HandleFinal
    \/ HandlePartial
    \/ RuntimeError
    \/ KeyboardInterrupt
    \/ ProcessExit

Spec == Init /\ [][Next]_vars

----------------------------------------------------------------------------
(* normalize and resolve_intent applied to a text directly *)

\* the texts are built from at most MaxPieces of these pieces
MaxPieces == 3

Pieces == {W.stop, W.wait, W.exit, W.start, Phrase(<<W.stop, W.listening>>),
           <<" ">>, <<"!">>, <<"_">>, <<"'">>, <<"A">>}

RECURSIVE TextsOf(_)
TextsOf(n) ==
    IF n = 0 THEN {<<>>}
    ELSE LET shorter == TextsOf(n - 1)
         IN  shorter \cup {s \o p : s \in shorter, p \in Pieces}

InputTexts == TextsOf(MaxPieces)

TextInit ==
    /\ LoopInit
    /\ silence_timeout = 0
    /\ input \in InputTexts
    /\ normalized = <<>>
    /\ resolved = "NONE"
    /\ resolved_normalized = "NONE"
    /\ text_pc = "ready"

Normalize ==
    /\ text_pc = "ready"
    /\ normalized' = normalize(input)
    /\ text_pc' = "normalized"
    /\ UNCHANGED <<input, resolved, resolved_normalized>>
    /\ UNCHANGED loop_vars

Resolve ==
    /\ text_pc = "normalized"
    /\ resolved' = resolve_intent(input)
    /\ text_pc' = "resolved"
    /\ UNCHANGED <<input, normalized, resolved_normalized>>
    /\ UNCHANGED loop_vars

\* resolve_intent(normalize(input)): the classifier on an already normalized text
ResolveNormalized ==
    /\ text_pc = "resolved"
    /\ resolved_normalized' = resolve_intent(normalized)
    /\ text_pc' = "resolved again"
    /\ UNCHANGED <<input, normalized, resolved>>
    /\ UNCHANGED loop_vars

TextNext == Normalize \/ Resolve \/ ResolveNormalized

TextSpec == TextInit /\ [][TextNext]_vars

----------------------------------------------------------------------------
(* The main thread keeps running its loop and the clock keeps advancing;     *)
(* nothing is assumed of the capture thread, the recognizer or the user.     *)

LoopStep == LoopTimeout \/ HandleFinal \/ HandlePartial

FairSpec == Init /\ [][Next]_vars /\ WF_vars(LoopStep) /\ WF_vars(Tick)

----------------------------------------------------------------------------
(* Properties *)

\* the step handles a recognizer result (either branch of the loop body)
Handle == HandleFinal \/ HandlePartial

\* the step handles a PARTIAL with non-empty text right after another one
\* (event is the result handled before, event' the one handled now), both
\* resolving to the same intent; the first was handled at last_activity_ts
SamePartialPair ==
    /\ HandlePartial
    /\ event.kind = "PARTIAL" /\ event.text # <<>>
    /\ event'.kind = "PARTIAL" /\ event'.text # <<>>
    /\ IntentOf(event.text) = IntentOf(event'.text)

\* C1 as stated: of two PARTIAL events handled one after the other at t and
\* t + d, with non-empty texts of the same intent, the second emits iff
\* d > debounce_sec.  (Stated here for the intents a PARTIAL can emit at all.)
C1_DebounceBetweenEvents ==
    [][(SamePartialPair /\ IntentOf(event'.text) # "OTHER") =>
         (event'.emitted # "NONE" <=> (now - last_activity_ts) > debounce_sec)]_vars

\* C1 as amended: the second emits iff its intent is not OTHER and more than
\* debounce_sec has passed since the last emission (last_emit_ts), which is
\* d > debounce_sec when the first event itself emitted.
C1_DebounceSinceLastEmit ==
    [][SamePartialPair =>
         /\ event'.emitted # "NONE" <=>
               (IntentOf(event'.text) # "OTHER" /\ (now - last_emit_ts) > debounce_sec)
         /\ event.emitted # "NONE" =>
               (event'.emitted # "NONE" <=> (now - last_activity_ts) > debounce_sec)]_vars

\* a PARTIAL of intent STOP was suppressed, the next PARTIAL of the same intent emitted
C1_Witness ==
    /\ prev_event.kind = "PARTIAL" /\ prev_event.text = W.stop
    /\ prev_event.emitted = "NONE"
    /\ event.kind = "PARTIAL" /\ event.text = W.stop
    /\ event.emitted = "STOP"

\* C2: a PARTIAL with non-empty text whose intent is not OTHER and differs
\* from last_intent emits, and sets last_intent and last_emit_ts to that
\* intent and to the time of the event, whatever the time since the last emission.
C2_ChangedIntentEmits ==
    [][(/\ HandlePartial
        /\ event'.text # <<>>
        /\ IntentOf(event'.text) # "OTHER"
        /\ IntentOf(event'.text) # last_intent)
       => /\ event'.emitted = IntentOf(event'.text)
          /\ last_intent' = IntentOf(event'.text)
          /\ last_emit_ts' = now]_vars

\* STOP was emitted and a PARTIAL of intent PAUSE emitted at the very same time
C2_Witness ==
    /\ prev_event.emitted = "STOP"
    /\ event.kind = "PARTIAL" /\ event.emitted = "PAUSE"
    /\ last_intent = "PAUSE"
    /\ last_emit_ts = StartTime /\ now = StartTime

\* C3: in an utterance whose PARTIAL emitted intent I, the FINAL that follows
\* it with the same intent within debounce_sec of that emission emits nothing
\* more (I is emitted exactly once).
C3_NoDuplicateTrigger ==
    [][(/\ HandleFinal
        /\ event.kind = "PARTIAL" /\ event.emitted # "NONE"
        /\ event'.text # <<>>
        /\ IntentOf(event'.text) = event.emitted
        /\ (now - last_emit_ts) <= debounce_sec)
       => event'.emitted = "NONE"]_vars

\* C4: whenever the loop runs with the silence timeout exceeded, it eventually
\* ends (by the silence timeout, or otherwise) or activity is seen again.
C4_SilenceTimeoutLiveness ==
    (pc = "loop" /\ silence_timeout > 0 /\ (now - last_activity_ts) > silence_timeout)
        ~> (pc # "loop" \/ ~((now - last_activity_ts) > silence_timeout))

\* C5: the loop ends with reason "silence timeout" only at a poll that
\* returned no item, with silence_timeout > 0 and more than silence_timeout
\* since the last activity; with silence_timeout = 0 it ends only by voice
\* exit, interrupt or error.
C5_SilenceTimeoutSafety ==
    /\ [][(reason' = "silence timeout" /\ reason # "silence timeout")
          => /\ LoopTimeout
             /\ q = <<>>
             /\ silence_timeout > 0
             /\ (now - last_activity_ts) > silence_timeout]_vars
    /\ [](silence_timeout = 0 =>
            /\ reason # "silence timeout"
            /\ pc # "loop" => reason \in {"voice exit", "interrupt", "error"})

\* the loop has ended by the silence timeout
C5_Witness ==
    /\ pc = "done"
    /\ reason = "silence timeout"
    /\ silence_timeout > 0

\* C6: a FINAL resolving to EXIT prints the EXIT notification, then the exit
\* notice, and ends the loop with reason "voice exit"; after that nothing is
\* dequeued, nothing is emitted and the session state does not change.
C6_VoiceExitIsFinal ==
    /\ [][(HandleFinal /\ event'.text # <<>> /\ IntentOf(event'.text) = "EXIT")
          => /\ event'.emitted = "EXIT"
             /\ event'.lines = <<"HEARD", "EXIT_NOTICE">>
             /\ pc' = "done"
             /\ reason' = "voice exit"]_vars
    /\ [][reason = "voice exit"
          => /\ Len(q') >= Len(q)
             /\ pc' # "loop"
             /\ UNCHANGED <<last_intent, last_activity_ts, last_emit_ts,
                            event, prev_event, reason>>]_vars

\* the loop has ended by a FINAL "exit" and a frame waits in the queue
C6_Witness ==
    /\ reason = "voice exit"
    /\ event.kind = "FINAL" /\ event.emitted = "EXIT"
    /\ q # <<>>
    /\ pc = "exited"

C8_EmptyAfterNormalize ==
    [][(Handle /\ normalize(event'.text) = <<>>)
       => /\ event'.emitted = "NONE"
          /\ UNCHANGED <<last_intent, last_emit_ts, last_activity_ts>>]_vars

\* C8 as amended: a result whose text is empty after .strip() emits nothing
\* and leaves last_intent, last_emit_ts and last_activity_ts unchanged.
C8_EmptyAfterStrip ==
    [][(Handle /\ event'.text = <<>>)
       => /\ event'.emitted = "NONE"
          /\ event'.lines = <<>>
          /\ UNCHANGED <<last_intent, last_emit_ts, last_activity_ts>>]_vars

\* an empty FINAL was handled after STOP had been emitted, some time later
C8_Witness ==
    /\ prev_event.emitted = "STOP"
    /\ event.kind = "FINAL" /\ event.text = <<>>
    /\ last_intent = "STOP"
    /\ now > last_activity_ts

\* a text matches a pattern group, as given or once normalized
Matches(text, patterns) ==
    match_any(text, patterns) \/ match_any(normalize(text), patterns)

\* C9 as stated: a text matching an EXIT and a START pattern resolves to
\* EXIT; a text matching a STOP and a PAUSE pattern resolves to STOP.
C9_Priority ==
    text_pc = "resolved" =>
        /\ (Matches(input, EXIT_PATTERNS) /\ Matches(input, START_PATTERNS))
              => resolved = "EXIT"
        /\ (Matches(input, STOP_PATTERNS) /\ Matches(input, PAUSE_PATTERNS))
              => resolved = "STOP"

\* C9 as amended: ... a text matching a STOP and a PAUSE pattern resolves to
\* STOP unless its normalized form matches an EXIT pattern, and then to EXIT.
C9_PriorityBelowExit ==
    text_pc = "resolved" =>
        /\ (Matches(input, EXIT_PATTERNS) /\ Matches(input, START_PATTERNS))
              => resolved = "EXIT"
        /\ (Matches(input, STOP_PATTERNS) /\ Matches(input, PAUSE_PATTERNS))
              => resolved = IF match_any(normalized, EXIT_PATTERNS) THEN "EXIT" ELSE "STOP"

\* "stop wait start": STOP, PAUSE and START patterns match, no EXIT pattern
C9_Witness ==
    /\ text_pc = "resolved"
    /\ match_any(input, STOP_PATTERNS)
    /\ match_any(input, PAUSE_PATTERNS)
    /\ ~match_any(normalized, EXIT_PATTERNS)
    /\ resolved = "STOP"

\* C10 as stated: a text made only of characters outside [a-z0-9\s'] is
\* normalized to the empty string.
C10_OutsideClassIsEmpty ==
    (text_pc # "ready" /\ \A i \in DOMAIN input : ~InKeepClass(input[i]))
        => normalized = <<>>

\* C10 as amended: a text whose lower-cased form is made only of characters
\* outside [a-z0-9\s'] is normalized to the empty string.
C10_LoweredOutsideClassIsEmpty ==
    (text_pc # "ready" /\ \A i \in DOMAIN input : ~InKeepClass(LowerChar(input[i])))
        => normalized = <<>>

\* a non-empty text of such characters has been normalized
C10_Witness ==
    /\ text_pc = "normalized"
    /\ Len(input) >= 2
    /\ \A i \in DOMAIN input : ~InKeepClass(LowerChar(input[i]))
    /\ normalized = <<>>

\* C11: normalizing is invisible to the classifier and idempotent: for every
\* text x, resolve_intent(normalize(x)) = resolve_intent(x), and
\* normalize(normalize(x)) = normalize(x).
C11_NormalizeClassifierEquivalent ==
    /\ text_pc # "ready" => normalize(normalized) = normalized
    /\ text_pc = "resolved again" => resolved_normalized = resolved

\* a text that normalizing changes has been classified both ways, as a command
C11_Witness ==
    /\ text_pc = "resolved again"
    /\ input # normalized
    /\ Len(normalized) > 0
    /\ resolved = "PAUSE"
    /\ resolved_normalized = "PAUSE"

\* C12: capture and runtime errors are fatal with exit code 1: once the capture
\* thread has failed while the loop runs, the process never ends with another
\* exit code than 1 (stated for the ending the user and the speaker have no
\* part in, the silence timeout); a recognizer error always exits with code 1.
C12_ErrorsExitWithCodeOne ==
    /\ []((audio = "failed" /\ pc = "loop")
            => []((pc = "exited" /\ reason = "silence timeout") => exit_code = 1))
    /\ []((pc = "exited" /\ reason = "error") => exit_code = 1)

\* C13: capture is released on session end: once the event loop has ended, by
\* voice EXIT, by silence timeout or by interrupt, the capture no longer runs
\* and the producer enqueues no further frame.
C13_CaptureReleasedAtLoopEnd ==
    [][(pc = "done" /\ reason \in {"voice exit", "silence timeout", "interrupt"})
        => (audio # "open" /\ q' = q)]_vars

\* the three fields of the session state
session_state == <<last_intent, last_activity_ts, last_emit_ts>>

\* C14: single-consumer ownership: a step that puts a frame on the queue puts
\* exactly one, at the tail, and writes nothing of the session state or of the
\* loop; the session state is written only by a step of the running loop that
\* takes the head frame off the queue; every step that takes a frame takes
\* exactly the head and handles it to the end (one recorded result, or the
\* error that ends the loop) within that step.
C14_SingleConsumerOwnership ==
    [][/\ Len(q') > Len(q)
            => /\ q' = Append(q, Frame)
               /\ UNCHANGED <<session_state, pc, reason, waited, event, prev_event>>
       /\ session_state' # session_state
            => /\ pc = "loop"
               /\ q # <<>>
               /\ q' = Tail(q)
       /\ Len(q') < Len(q)
            => /\ pc = "loop"
               /\ q' = Tail(q)
               /\ \/ prev_event' = event /\ event'.kind \in {"FINAL", "PARTIAL"}
                  \/ pc' = "done" /\ reason' = "error"]_vars

\* the loop has handled a frame that had another one queued behind it, and the
\* producer has filled the queue again
C14_Witness ==
    /\ pc = "loop"
    /\ Len(q) = 2
    /\ waited = 0
    /\ event.kind = "PARTIAL" /\ event.emitted = "STOP"
    /\ prev_event.kind = "FINAL"
    /\ last_activity_ts = now

\* C15: final events bypass the debounce: every FINAL with non-empty text that
\* resolves to a non-OTHER intent emits it, whatever last_intent is and however
\* recent last_emit_ts is, and leaves last_intent at that intent and
\* last_emit_ts at the time of the event.
C15_FinalBypassesDebounce ==
    [][(/\ HandleFinal
        /\ event'.text # <<>>
        /\ IntentOf(event'.text) # "OTHER")
       => /\ event'.emitted = IntentOf(event'.text)
          /\ last_intent' = IntentOf(event'.text)
          /\ last_emit_ts' = now]_vars

\* a FINAL has emitted the intent emitted just before it, less than the
\* debounce interval after the session began
C15_Witness ==
    /\ event.kind = "FINAL" /\ event.emitted = "PAUSE"
    /\ prev_event.emitted = "PAUSE"
    /\ now - StartTime < debounce_sec
    /\ last_intent = "PAUSE"
    /\ last_emit_ts = now

\* the PARTIAL handled by the step printed nothing and wrote nothing but
\* last_activity_ts, which it set to the time of the event
OnlyActivityMarked ==
    /\ event'.emitted = "NONE"
    /\ UNCHANGED <<last_intent, last_emit_ts>>
    /\ last_activity_ts' = now

\* C16 as stated: every PARTIAL whose text resolves to OTHER emits nothing and
\* changes nothing but last_activity_ts, set to the time of the event, and so
\* does every PARTIAL suppressed by the debounce.
C16_PartialOtherMarksActivity ==
    [][(/\ HandlePartial
        /\ \/ IntentOf(event'.text) = "OTHER"
           \/ event'.emitted = "NONE")
       => OnlyActivityMarked]_vars

\* C16: partials never emit OTHER: a PARTIAL with non-empty text that resolves
\* to OTHER, or that the debounce suppresses, emits nothing and changes nothing
\* but last_activity_ts, set to the time of the event; a PARTIAL with empty
\* text (which resolves to OTHER too) emits nothing and changes nothing at all.
C16_PartialOtherSuppressed ==
    [][HandlePartial
       => /\ (/\ event'.text # <<>>
               /\ \/ IntentOf(event'.text) = "OTHER"
                  \/ event'.emitted = "NONE")
              => OnlyActivityMarked
          /\ event'.text = <<>>
              => /\ event'.emitted = "NONE"
                 /\ UNCHANGED session_state]_vars

\* a PARTIAL that resolves to OTHER has been handled after a command was
\* emitted: the activity time has moved on, the emission time has not
C16_Witness ==
    /\ event.kind = "PARTIAL" /\ event.text = <<"u","h">> /\ event.emitted = "NONE"
    /\ last_intent = "STOP"
    /\ last_activity_ts = now
    /\ last_emit_ts > 0 /\ last_emit_ts < now

\* every value last_emit_ts takes on is the value last_activity_ts has then
EmitTimeIsActivityTime ==
    [][last_emit_ts' # last_emit_ts => last_emit_ts' = last_activity_ts']_vars

\* C17 as stated: in every reachable state last_emit_ts is a value that
\* last_activity_ts has held at or before that state.  Said step by step: it
\* is so when the session begins, and last_emit_ts only changes to the value
\* last_activity_ts has at that moment.
C17_EmitTimeWasActivityTime ==
    /\ last_emit_ts = last_activity_ts
    /\ EmitTimeIsActivityTime

\* C17: in every reachable state last_emit_ts is either the 0 it was created
\* with, which last_activity_ts never held, or a value that last_activity_ts
\* has held at or before that state: it is 0 when the session begins and until
\* something is emitted, and it only changes to the value last_activity_ts has
\* at that moment.
C17_EmitTimeZeroOrActivityTime ==
    /\ last_emit_ts = 0
    /\ [](last_intent = "None" => last_emit_ts = 0)
    /\ [](last_activity_ts > 0)
    /\ EmitTimeIsActivityTime

\* a FINAL has been handled some time after an emission: last_emit_ts is the
\* time of that emission, which last_activity_ts held then and has left since
C17_Witness ==
    /\ event.kind = "FINAL" /\ event.emitted = "OTHER"
    /\ prev_event.emitted = "PAUSE"
    /\ last_emit_ts > StartTime
    /\ last_activity_ts > last_emit_ts

\* C18: EXIT is never debounced: while the loop runs last_intent is one of
\* None, START, STOP, PAUSE, OTHER and never EXIT; so every PARTIAL or FINAL
\* with non-empty text that resolves to EXIT is emitted and ends the session,
\* however soon it follows the previous emission.
C18_ExitNeverDebounced ==
    /\ [](pc = "loop" => last_intent \in {"None", "START", "STOP", "PAUSE", "OTHER"})
    /\ [][(/\ pc = "loop"
            /\ event'.kind \in {"PARTIAL", "FINAL"}
            /\ prev_event' = event
            /\ Len(q') < Len(q)
            /\ event'.text # <<>>
            /\ IntentOf(event'.text) = "EXIT")
           => /\ event'.emitted = "EXIT"
              /\ last_intent' = "EXIT"
              /\ pc' = "done"
              /\ reason' = "voice exit"]_vars

\* a PARTIAL "exit" has ended the session right after another emission, less
\* than the debounce interval after the session began
C18_Witness ==
    /\ pc = "done" /\ reason = "voice exit"
    /\ event.kind = "PARTIAL" /\ event.emitted = "EXIT"
    /\ prev_event.emitted = "STOP"
    /\ last_emit_ts - StartTime < debounce_sec

\* C19: with a clock that never goes back, last_emit_ts <= last_activity_ts in
\* every reachable state: an emitting event sets both to its time, a
\* suppressed one with non-empty text moves last_activity_ts alone, forward.
C19_EmitNotAfterActivity ==
    /\ last_emit_ts <= last_activity_ts
    /\ last_activity_ts <= now

\* the debounce has suppressed a repeated PARTIAL: the activity time has moved
\* past the emission time
C19_Witness ==
    /\ event.kind = "PARTIAL" /\ event.text = W.stop /\ event.emitted = "NONE"
    /\ last_intent = "STOP"
    /\ last_emit_ts >= StartTime
    /\ last_emit_ts < last_activity_ts
    /\ last_activity_ts = now

\* the step handles a recognizer result and prints a notification for it
Emitting ==
    /\ Len(q') < Len(q)
    /\ reason' # "error"
    /\ event'.emitted # "NONE"

\* C20: the notifications never hold two OTHER in a row.  last_intent is the
\* notification printed last (it is set to every notification printed and by
\* nothing else), and a step that prints OTHER finds last_intent other than
\* OTHER; that step handles a FINAL, sets last_intent to OTHER and leaves
\* last_emit_ts as it was.
C20_NoTwoOtherInARow ==
    [][/\ Emitting => last_intent' = event'.emitted
       /\ ~Emitting => last_intent' = last_intent
       /\ (Emitting /\ event'.emitted = "OTHER")
            => /\ last_intent # "OTHER"
               /\ event'.kind = "FINAL"
               /\ last_intent' = "OTHER"
               /\ last_emit_ts' = last_emit_ts]_vars

\* OTHER has been printed for a FINAL right after a PARTIAL printed STOP, and
\* the emission time is still that of the STOP
C20_Witness ==
    /\ event.kind = "FINAL" /\ event.emitted = "OTHER"
    /\ prev_event.kind = "PARTIAL" /\ prev_event.emitted = "STOP"
    /\ last_intent = "OTHER"
    /\ last_emit_ts >= StartTime
    /\ last_emit_ts < now

====
